---------------------------- MODULE Spec2Model ----------------------------
(***************************************************************************)
(* Model of the two content-hashing command-line tools of the repository:  *)
(*   scripts/check-duplicates.py  (duplicate scanner)                      *)
(*   scripts/random-rename.py     (hash-based renamer)                     *)
(* One behaviour is one run of one tool on one directory tree (SpecTwice:  *)
(* the renamer run again on the tree it left).  File                       *)
(* names, paths and digests are sequences of one-character strings so      *)
(* that os.path.join, os.path.splitext and the slice of the hex digest     *)
(* are computed character by character.                                    *)
(***************************************************************************)
EXTENDS Integers, Sequences, FiniteSets, TLC

(***************************************************************************)
(* Bounds of the model.                                                    *)
(***************************************************************************)
\* Largest number of files in the tree a run starts from.
MaxFiles == 3
\* Largest number of consecutive runs of the renamer on the same tree.
MaxRuns == 2

(***************************************************************************)
(* Input universe.                                                         *)
(***************************************************************************)
\* The directory given on the command line and its one subdirectory.
Root == <<"r">>
SubName == <<"s">>

\* File names: no extension, hidden file, several dots, and a name that is
\* already the one-character digest name of the contents below.
NameA == <<"a">>
NameBashrc == <<".","b","a","s","h","r","c">>
NameReport == <<"r","e","p","o","r","t",".","f","i","n","a","l",".","t","x","t">>
NameDigest == <<"2",".","t","x","t">>
Names == {NameA, NameBashrc, NameReport, NameDigest}

\* File contents (byte strings).
Contents == {"hello", "x"}

\* What the directory argument refers to.
ArgKinds == {"dir", "missing", "file"}

\* Behaviour of os.rename on an existing target.
Platforms == {"posix", "nt"}

\* Values given to --char_count (any integer is parsed).
DefaultCharCount == 10
CharCounts == {-1, 0, 1, DefaultCharCount, 65}

NoDigest == <<>>

(***************************************************************************)
(* Pure functions.                                                         *)
(***************************************************************************)
Min(a, b) == IF a < b THEN a ELSE b
Max(a, b) == IF a > b THEN a ELSE b

\* hashlib.sha256(buf).hexdigest(): the real SHA-256 digests of the contents.
sha256_hexdigest(buf) ==
  CASE buf = "hello" ->
         <<"2","c","f","2","4","d","b","a","5","f","b","0","a","3","0","e",
           "2","6","e","8","3","b","2","a","c","5","b","9","e","2","9","e",
           "1","b","1","6","1","e","5","c","1","f","a","7","4","2","5","e",
           "7","3","0","4","3","3","6","2","9","3","8","b","9","8","2","4">>
    [] buf = "x" ->
         <<"2","d","7","1","1","6","4","2","b","7","2","6","b","0","4","4",
           "0","1","6","2","7","c","a","9","f","b","a","c","3","2","f","5",
           "c","8","5","3","0","f","b","1","9","0","3","c","c","4","d","b",
           "0","2","2","5","8","7","1","7","9","2","1","a","4","8","8","1">>

\* Python slice s[:n]: negative n counts from the end, everything is clamped.
SlicePrefix(s, n) ==
  LET stop == IF n < 0 THEN Max(Len(s) + n, 0) ELSE Min(n, Len(s))
  IN  SubSeq(s, 1, stop)

\* os.path.join(dirpath, filename) for a relative filename.
join(dirpath, filename) == dirpath \o <<"/">> \o filename

Sub == join(Root, SubName)
Dirs == {Root, Sub}

\* Index of the last "." of p, 0 when there is none (p.rfind(extsep) + 1).
rfind_dot(p) ==
  LET dots == {i \in 1..Len(p) : p[i] = "."}
  IN  IF dots = {} THEN 0 ELSE CHOOSE i \in dots : \A j \in dots : j <= i

\* Variant of splitext that splits at the first dot instead of the last.
splitext_first_dot(p) ==
  LET dots == {i \in 1..Len(p) : p[i] = "."}
      first == IF dots = {} THEN 0 ELSE CHOOSE i \in dots : \A j \in dots : i <= j
  IN  IF first > 1
        THEN <<SubSeq(p, 1, first - 1), SubSeq(p, first, Len(p))>>
        ELSE <<p, <<>>>>

\* os.path.splitext(filename): the extension starts at the last dot unless
\* only dots precede it.
splitext(p) ==
  LET dotIndex == rfind_dot(p)
  IN  IF dotIndex > 0 /\ \E i \in 1..(dotIndex - 1) : p[i] # "."
        THEN <<SubSeq(p, 1, dotIndex - 1), SubSeq(p, dotIndex, Len(p))>>
        ELSE <<p, <<>>>>

(***************************************************************************)
(* State.                                                                  *)
(***************************************************************************)
VARIABLES
  tool,         \* "scan" (check-duplicates.py) or "rename" (random-rename.py)
  argKind,      \* what args.directory refers to
  char_count,   \* args.char_count (renamer)
  platform,     \* os.rename semantics
  fs,           \* fs[d][name] = [id, content, readable]: files of directory d
  fs0,          \* the tree at the start of the run
  pc,           \* "main", "walk", "done", "error"
  stack,        \* directories os.walk has still to list
  dirpath,      \* directory of the current os.walk triple
  filenames,    \* names of the current triple not yet iterated
  file_hashes,  \* find_duplicates: digest -> first path
  duplicates,   \* find_duplicates: list of (duplicate path, original path)
  stdout,       \* lines printed
  error,        \* exception that ended the run, "" when none
  visited,      \* history: the loop iterations, in order
  renames,      \* history: the os.rename calls that succeeded, in order
  run,          \* number of the current run of the script on this tree
  fs1           \* the tree the first run started from

vars == <<tool, argKind, char_count, platform, fs, fs0, pc, stack, dirpath,
          filenames, file_hashes, duplicates, stdout, error, visited, renames,
          run, fs1>>

EmptyFn == [x \in {} |-> TRUE]

\* The names a file of directory d may have at the start.
NamesIn(d) == IF d = Root THEN Names ELSE {NameReport, NameDigest}

Slots == UNION {{<<d, n>> : n \in NamesIn(d)} : d \in Dirs}

\* The tree with a file at each slot of S: f gives the contents, the files
\* at the slots of U cannot be read.
Tree(S, f, U) ==
  [d \in Dirs |->
    [n \in {m \in Names : <<d, m>> \in S} |->
      [id |-> join(d, n), content |-> f[<<d, n>>], readable |-> <<d, n>> \notin U]]]

\* Trees of at most MaxFiles files, at most one of them unreadable.
Trees ==
  UNION {{Tree(S, f, U) : f \in [S -> Contents], U \in {{}} \cup {{s} : s \in S}} :
           S \in {T \in SUBSET Slots : Cardinality(T) <= MaxFiles}}

Init ==
  /\ tool \in {"scan", "rename"}
  /\ argKind \in ArgKinds
  /\ char_count \in (IF tool = "rename" THEN CharCounts ELSE {DefaultCharCount})
  /\ platform \in (IF tool = "rename" THEN Platforms ELSE {"posix"})
  /\ fs \in (IF argKind = "dir" THEN Trees ELSE {Tree({}, EmptyFn, {})})
  /\ fs0 = fs
  /\ pc = "main"
  /\ stack = <<>>
  /\ dirpath = <<>>
  /\ filenames = {}
  /\ file_hashes = EmptyFn
  /\ duplicates = <<>>
  /\ stdout = <<>>
  /\ error = ""
  /\ visited = <<>>
  /\ renames = <<>>
  /\ run = 1
  /\ fs1 = fs

(***************************************************************************)
(* File system access.                                                     *)
(***************************************************************************)
\* The directory entries whose path is filepath.
EntriesAt(filepath) ==
  {e \in {<<d, n>> : d \in Dirs, n \in UNION {DOMAIN fs[dd] : dd \in Dirs}} :
     /\ e[2] \in DOMAIN fs[e[1]]
     /\ join(e[1], e[2]) = filepath}

Exists(filepath) == EntriesAt(filepath) # {}

FileAt(filepath) ==
  LET e == CHOOSE x \in EntriesAt(filepath) : TRUE IN fs[e[1]][e[2]]

\* open(filepath, "rb") and file.read(): raises when the file is missing or
\* cannot be read, otherwise yields the whole content.
read_file(filepath) ==
  IF Exists(filepath) /\ FileAt(filepath).readable
    THEN [raised |-> FALSE, buf |-> FileAt(filepath).content]
    ELSE [raised |-> TRUE, buf |-> ""]

\* Variant of hash_file that swallows the I/O error and returns no digest.
scan_hash_file_swallow(filepath) ==
  LET r == read_file(filepath)
  IN  IF r.raised
        THEN [raised |-> FALSE, value |-> NoDigest]
        ELSE [raised |-> FALSE, value |-> sha256_hexdigest(r.buf)]

\* check-duplicates.py hash_file(filepath).
scan_hash_file(filepath) ==
  LET r == read_file(filepath)
  IN  IF r.raised
        THEN [raised |-> TRUE, value |-> NoDigest]
        ELSE [raised |-> FALSE, value |-> sha256_hexdigest(r.buf)]

\* random-rename.py hash_file(filepath, char_count).
rename_hash_file(filepath, count) ==
  LET r == read_file(filepath)
  IN  IF r.raised
        THEN [raised |-> TRUE, value |-> NoDigest]
        ELSE [raised |-> FALSE, value |-> SlicePrefix(sha256_hexdigest(r.buf), count)]

\* Directory d after its entry old has been renamed to new.
Moved(D, old, new) ==
  IF old = new
    THEN D
    ELSE [n \in (DOMAIN D \ {old}) \cup {new} |-> IF n = new THEN D[old] ELSE D[n]]

\* os.rename(join(d, old), join(d, new)): "" when it succeeds, otherwise
\* the exception raised.
os_rename_error(d, old, new) ==
  IF old \notin DOMAIN fs[d] THEN "FileNotFoundError"
  ELSE IF new = <<>> THEN "NotADirectoryError"
  ELSE IF new # old /\ new \in DOMAIN fs[d] /\ platform = "nt" THEN "FileExistsError"
  ELSE ""

(***************************************************************************)
(* os.walk.                                                                *)
(***************************************************************************)
\* os.scandir(top) succeeds: top is a directory that exists.
IsDir(top) == top \in Dirs /\ argKind = "dir"

SubDirs(top) == IF top = Root THEN <<Sub>> ELSE <<>>

\* The walk yields the next triple (dirpath, dirnames, filenames).
WalkDir ==
  /\ pc = "walk"
  /\ filenames = {}
  /\ stack # <<>>
  /\ IsDir(Head(stack))
  /\ dirpath' = Head(stack)
  /\ filenames' = DOMAIN fs[Head(stack)]
  /\ stack' = SubDirs(Head(stack)) \o Tail(stack)
  /\ UNCHANGED <<run, fs1, tool, argKind, char_count, platform, fs, fs0, pc, file_hashes,
                 duplicates, stdout, error, visited, renames>>

\* os.scandir(top) fails and os.walk (onerror=None) ignores the error.
WalkSkip ==
  /\ pc = "walk"
  /\ filenames = {}
  /\ stack # <<>>
  /\ ~IsDir(Head(stack))
  /\ stack' = Tail(stack)
  /\ UNCHANGED <<run, fs1, tool, argKind, char_count, platform, fs, fs0, pc, dirpath,
                 filenames, file_hashes, duplicates, stdout, error, visited, renames>>

(***************************************************************************)
(* check-duplicates.py                                                     *)
(***************************************************************************)
\* __main__: get_args() and the call of find_duplicates(args.directory).
ScanMain ==
  /\ pc = "main"
  /\ tool = "scan"
  /\ pc' = "walk"
  /\ stack' = <<Root>>
  /\ file_hashes' = EmptyFn
  /\ duplicates' = <<>>
  /\ UNCHANGED <<run, fs1, tool, argKind, char_count, platform, fs, fs0, dirpath,
                 filenames, stdout, error, visited, renames>>

\* Variant of the index update keyed by the path instead of the digest.
IndexAfter_by_path(index, file_hash, filepath) ==
  IF filepath \in DOMAIN index
    THEN index
    ELSE index @@ (filepath :> filepath)

\* Variant of the index update where the last path with a digest wins.
IndexAfter_last_wins(index, file_hash, filepath) ==
  [h \in DOMAIN index \cup {file_hash} |->
     IF h = file_hash THEN filepath ELSE index[h]]

\* file_hashes after the if/else of the loop body.
IndexAfter(index, file_hash, filepath) ==
  IF file_hash \in DOMAIN index
    THEN index
    ELSE index @@ (file_hash :> filepath)

\* Variant of the record that puts the original first.
DuplicatesAfter_swapped(dups, index, file_hash, filepath) ==
  IF file_hash \in DOMAIN index
    THEN Append(dups, <<index[file_hash], filepath>>)
    ELSE dups

\* duplicates after the if/else of the loop body.
DuplicatesAfter(dups, index, file_hash, filepath) ==
  IF file_hash \in DOMAIN index
    THEN Append(dups, <<filepath, index[file_hash]>>)
    ELSE dups

\* One iteration of the inner loop of find_duplicates.
ScanFile(filename) ==
  /\ pc = "walk"
  /\ tool = "scan"
  /\ filename \in filenames
  /\ LET filepath == join(dirpath, filename)
         r == scan_hash_file(filepath)
     IN  /\ visited' = Append(visited, [dir |-> dirpath, name |-> filename,
                                        path |-> filepath,
                                        id |-> IF Exists(filepath)
                                                 THEN FileAt(filepath).id ELSE <<>>,
                                        raised |-> r.raised])
         /\ IF r.raised
              THEN /\ pc' = "error"
                   /\ error' = "OSError"
                   /\ UNCHANGED <<filenames, file_hashes, duplicates>>
              ELSE /\ filenames' = filenames \ {filename}
                   /\ file_hashes' = IndexAfter(file_hashes, r.value, filepath)
                   /\ duplicates' = DuplicatesAfter(duplicates, file_hashes, r.value, filepath)
                   /\ UNCHANGED <<pc, error>>
  /\ UNCHANGED <<run, fs1, tool, argKind, char_count, platform, fs, fs0, stack, dirpath,
                 stdout, renames>>

\* The lines print_duplicates writes.
print_duplicates(dups) ==
  IF dups # <<>>
    THEN [i \in 1..Len(dups) |-> <<dups[i][1], " is a duplicate of ", dups[i][2]>>]
    ELSE <<"No duplicate files found.">>

\* The walk is exhausted: find_duplicates returns and __main__ prints.
ScanReturn ==
  /\ pc = "walk"
  /\ tool = "scan"
  /\ filenames = {}
  /\ stack = <<>>
  /\ stdout' = stdout \o print_duplicates(duplicates)
  /\ pc' = "done"
  /\ UNCHANGED <<run, fs1, tool, argKind, char_count, platform, fs, fs0, stack, dirpath,
                 filenames, file_hashes, duplicates, error, visited, renames>>

(***************************************************************************)
(* random-rename.py                                                        *)
(***************************************************************************)
\* __main__: get_args(), setup_logging() and the call of rename_files.
RenameMain ==
  /\ pc = "main"
  /\ tool = "rename"
  /\ pc' = "walk"
  /\ stack' = <<Root>>
  /\ UNCHANGED <<run, fs1, tool, argKind, char_count, platform, fs, fs0, dirpath, filenames,
                 file_hashes, duplicates, stdout, error, visited, renames>>

\* file_hash + os.path.splitext(filename)[1]
new_filename(file_hash, filename) == file_hash \o splitext(filename)[2]

\* One iteration of the inner loop of rename_files.
RenameFile(filename) ==
  /\ pc = "walk"
  /\ tool = "rename"
  /\ filename \in filenames
  /\ LET filepath == join(dirpath, filename)
         r == rename_hash_file(filepath, char_count)
         new == new_filename(r.value, filename)
         err == IF r.raised THEN "OSError" ELSE os_rename_error(dirpath, filename, new)
     IN  /\ visited' = Append(visited, [dir |-> dirpath, name |-> filename,
                                        path |-> filepath,
                                        id |-> IF Exists(filepath)
                                                 THEN FileAt(filepath).id ELSE <<>>,
                                        raised |-> r.raised])
         /\ IF err # ""
              THEN /\ pc' = "error"
                   /\ error' = err
                   /\ UNCHANGED <<filenames, fs, renames>>
              ELSE /\ filenames' = filenames \ {filename}
                   /\ fs' = [fs EXCEPT ![dirpath] = Moved(@, filename, new)]
                   /\ renames' = Append(renames,
                        [dir |-> dirpath, old |-> filename, new |-> new,
                         file_hash |-> r.value,
                         id |-> fs[dirpath][filename].id,
                         replaced |-> IF new # filename /\ new \in DOMAIN fs[dirpath]
                                        THEN {fs[dirpath][new].id} ELSE {}])
                   /\ UNCHANGED <<pc, error>>
  /\ UNCHANGED <<run, fs1, tool, argKind, char_count, platform, fs0, stack, dirpath,
                 file_hashes, duplicates, stdout>>

\* The walk is exhausted: rename_files returns and the script ends.
RenameReturn ==
  /\ pc = "walk"
  /\ tool = "rename"
  /\ filenames = {}
  /\ stack = <<>>
  /\ pc' = "done"
  /\ UNCHANGED <<run, fs1, tool, argKind, char_count, platform, fs, fs0, stack, dirpath,
                 filenames, file_hashes, duplicates, stdout, error, visited, renames>>

\* The script is started again on the tree the completed run left, with the
\* same arguments.
RenameAgain ==
  /\ pc = "done"
  /\ tool = "rename"
  /\ run < MaxRuns
  /\ run' = run + 1
  /\ fs0' = fs
  /\ pc' = "walk"
  /\ stack' = <<Root>>
  /\ visited' = <<>>
  /\ renames' = <<>>
  /\ UNCHANGED <<fs1, tool, argKind, char_count, platform, fs, dirpath, filenames,
                 file_hashes, duplicates, stdout, error>>

Next ==
  \/ ScanMain
  \/ RenameMain
  \/ WalkDir
  \/ WalkSkip
  \/ \E filename \in filenames : ScanFile(filename)
  \/ ScanReturn
  \/ \E filename \in filenames : RenameFile(filename)
  \/ RenameReturn

Spec == Init /\ [][Next]_vars

\* Runs of the renamer repeated on the same tree.
NextTwice == Next \/ RenameAgain

SpecTwice == Init /\ [][NextTwice]_vars

TypeOK ==
  /\ pc \in {"main", "walk", "done", "error"}
  /\ (error = "") = (pc # "error")

(***************************************************************************)
(* Vocabulary of the properties.                                           *)
(***************************************************************************)
\* The files of the tree at the start of the run.
Files0 == UNION {{fs0[d][n] : n \in DOMAIN fs0[d]} : d \in Dirs}

File0(id) == CHOOSE f \in Files0 : f.id = id

\* Loop iterations whose hash_file call returned.
Hashed == {i \in 1..Len(visited) : ~visited[i].raised}

ContentAt(i) == File0(visited[i].id).content

DigestAt(i) == sha256_hexdigest(ContentAt(i))

\* The earliest iteration that hashed a file with the digest of iteration i.
FirstWith(i) ==
  CHOOSE j \in Hashed :
    /\ DigestAt(j) = DigestAt(i)
    /\ \A k \in Hashed : DigestAt(k) = DigestAt(i) => j <= k

Records == {duplicates[k] : k \in 1..Len(duplicates)}

\* Number of records that pair the paths p and q, in either order.
Pairings(p, q) ==
  Cardinality({k \in 1..Len(duplicates) : duplicates[k] \in {<<p, q>>, <<q, p>>}})

(***************************************************************************)
(* C1: the list of find_duplicates is exactly the set of pairs (f, o)      *)
(* where f is a visited file whose digest equals that of a file visited    *)
(* earlier and o is the earliest visited file with that digest; each such  *)
(* f is in exactly one record, no record relates files of different        *)
(* content, and no original is itself a duplicate.                         *)
(***************************************************************************)
C1_Expected ==
  {<<visited[i].path, visited[FirstWith(i)].path>> : i \in {j \in Hashed : FirstWith(j) < j}}

C1_DuplicatesExact ==
  tool = "scan" =>
    /\ Records = C1_Expected
    /\ Len(duplicates) = Cardinality(C1_Expected)
    /\ \A i \in Hashed :
         Cardinality({k \in 1..Len(duplicates) : duplicates[k][1] = visited[i].path})
           = (IF FirstWith(i) < i THEN 1 ELSE 0)
    /\ \A r \in Records : File0(r[1]).content = File0(r[2]).content
    /\ \A r \in Records : \A q \in Records : r[2] # q[1]

\* A finished scan of two equal files and one different file.
C1_Witness ==
  /\ tool = "scan"
  /\ pc = "done"
  /\ Len(visited) = 3
  /\ Len(duplicates) = 1

(***************************************************************************)
(* C2 (as stated): for all files a and b with identical content exactly    *)
(* one record pairs a with b, the earlier visited being the original, also *)
(* when three or more files share the content.                             *)
(***************************************************************************)
C2_EveryPairReported ==
  (tool = "scan" /\ pc = "done") =>
    \A i \in Hashed : \A j \in Hashed :
      (i < j /\ ContentAt(i) = ContentAt(j)) =>
        /\ Pairings(visited[i].path, visited[j].path) = 1
        /\ <<visited[j].path, visited[i].path>> \in Records

(***************************************************************************)
(* C2 (amended): for all files a and b with identical content, a visited   *)
(* before b: when a is the earliest visited file with that content exactly *)
(* one record pairs them and it is (b, a); otherwise no record pairs them  *)
(* (both are paired with the earliest file instead).                       *)
(***************************************************************************)
C2_PairedWithFirst ==
  (tool = "scan" /\ pc = "done") =>
    \A i \in Hashed : \A j \in Hashed :
      (i < j /\ ContentAt(i) = ContentAt(j)) =>
        IF FirstWith(i) = i
          THEN /\ Pairings(visited[i].path, visited[j].path) = 1
               /\ <<visited[j].path, visited[i].path>> \in Records
          ELSE Pairings(visited[i].path, visited[j].path) = 0

\* A finished scan of three files with the same content.
C2_Witness ==
  /\ tool = "scan"
  /\ pc = "done"
  /\ \E i \in Hashed : \E j \in Hashed : \E k \in Hashed :
       i < j /\ j < k /\ ContentAt(i) = ContentAt(j) /\ ContentAt(j) = ContentAt(k)

(***************************************************************************)
(* C3: during a scan the hash index is append-only: a digest once mapped   *)
(* to a path stays in the index and stays mapped to that path, however     *)
(* many later files have the same digest.                                  *)
(***************************************************************************)
C3_IndexAppendOnly ==
  [][\A h \in DOMAIN file_hashes :
       h \in DOMAIN file_hashes' /\ file_hashes'[h] = file_hashes[h]]_vars

\* Two later files had the digest already in the index.
C3_Witness ==
  /\ tool = "scan"
  /\ Cardinality(DOMAIN file_hashes) = 1
  /\ Len(duplicates) = 2

(***************************************************************************)
(* C4: after rename_files completes, every directory holds the same        *)
(* multiset of file contents as before the run.                            *)
(***************************************************************************)
CountOf(D, c) == Cardinality({n \in DOMAIN D : D[n].content = c})

C4_ContentsPreserved ==
  (tool = "rename" /\ pc = "done") =>
    \A d \in Dirs : \A c \in Contents : CountOf(fs[d], c) = CountOf(fs0[d], c)

(***************************************************************************)
(* C5: a rename whose new path names a different existing file of the same *)
(* directory fails with an error that ends the run; no os.rename call      *)
(* succeeds by replacing an existing file.                                 *)
(***************************************************************************)
C5_NoSilentReplace ==
  \A i \in 1..Len(renames) : renames[i].replaced = {}

(***************************************************************************)
(* C6 (as stated): every renamed file gets the truncated digest followed   *)
(* by the last dot-delimited suffix of its old name, empty only when the   *)
(* name has no dot.                                                        *)
(***************************************************************************)
HasDot(name) == \E i \in 1..Len(name) : name[i] = "."

LastDot(name) ==
  CHOOSE i \in 1..Len(name) :
    name[i] = "." /\ \A j \in (i + 1)..Len(name) : name[j] # "."

LastDotSuffix(name) ==
  IF HasDot(name) THEN SubSeq(name, LastDot(name), Len(name)) ELSE <<>>

\* The digest prefix the renamer computes for the file of rename i.
TruncatedDigestOf(i) ==
  SlicePrefix(sha256_hexdigest(File0(renames[i].id).content), char_count)

C6_LastDotSuffixKept ==
  \A i \in 1..Len(renames) :
    renames[i].new = TruncatedDigestOf(i) \o LastDotSuffix(renames[i].old)

(***************************************************************************)
(* C6 (amended): every renamed file gets the truncated digest followed by  *)
(* the suffix of its old name that starts at the last dot, and by nothing  *)
(* when the name has no dot or only dots before the last dot (a hidden     *)
(* file such as .bashrc).                                                  *)
(***************************************************************************)
ExtensionOf(name) ==
  IF HasDot(name) /\ \E k \in 1..(LastDot(name) - 1) : name[k] # "."
    THEN LastDotSuffix(name)
    ELSE <<>>

C6_ExtensionKept ==
  \A i \in 1..Len(renames) :
    renames[i].new = TruncatedDigestOf(i) \o ExtensionOf(renames[i].old)

\* One run renamed a hidden file, a file with several dots and a file
\* without extension.
C6_Witness ==
  /\ \E i \in 1..Len(renames) : renames[i].old = NameBashrc
  /\ \E i \in 1..Len(renames) : renames[i].old = NameReport
  /\ \E i \in 1..Len(renames) : renames[i].old = NameA

(***************************************************************************)
(* C7: invalid arguments (a directory that is missing or not a directory,  *)
(* a prefix length outside 1..64) are rejected before any traversal: no    *)
(* file is hashed or renamed, nothing is printed and the run does not      *)
(* complete normally.                                                      *)
(***************************************************************************)
DigestHexLen == Len(sha256_hexdigest("hello"))

InvalidArgs ==
  \/ argKind # "dir"
  \/ tool = "rename" /\ ~(1 <= char_count /\ char_count <= DigestHexLen)

C7_InvalidArgsRejected ==
  InvalidArgs =>
    /\ visited = <<>>
    /\ renames = <<>>
    /\ stdout = <<>>
    /\ pc \in {"main", "error"}

(***************************************************************************)
(* C8: an unreadable file makes hash_file raise and the error ends the     *)
(* run at that file: no later file is hashed or renamed, the scanner       *)
(* prints nothing, and a run either visits every file of the walk or       *)
(* stops at the first failing file.                                        *)
(***************************************************************************)
VisitedSlots == {<<visited[i].dir, visited[i].name>> : i \in 1..Len(visited)}

Slots0 == UNION {{<<d, n>> : n \in DOMAIN fs0[d]} : d \in Dirs}

C8_ErrorEndsRun ==
  /\ \A i \in 1..Len(visited) :
       /\ visited[i].raised = ~File0(visited[i].id).readable
       /\ visited[i].raised =>
            (i = Len(visited) /\ pc = "error" /\ error = "OSError")
  /\ Len(renames) <= Cardinality(Hashed)
  /\ (\E i \in 1..Len(visited) : visited[i].raised) => stdout = <<>>
  /\ pc = "error" => (visited # <<>> /\ stdout = <<>>)
  /\ pc = "done" => (VisitedSlots = Slots0 /\ Hashed = 1..Len(visited))

\* The run stopped at an unreadable file after one file, one file unvisited.
C8_Witness ==
  /\ pc = "error"
  /\ error = "OSError"
  /\ Len(visited) = 2
  /\ Cardinality(Slots0) = 3

(***************************************************************************)
(* C9: in a completed run every file present at the start is hashed        *)
(* exactly once.                                                           *)
(***************************************************************************)
C9_HashedExactlyOnce ==
  pc = "done" =>
    \A f \in Files0 : Cardinality({i \in Hashed : visited[i].id = f.id}) = 1

(***************************************************************************)
(* C10: for every character count the renamer accepts, hash_file returns   *)
(* a string of exactly that length which is a prefix of the full digest.   *)
(***************************************************************************)
IsPrefix(s, t) == Len(s) <= Len(t) /\ s = SubSeq(t, 1, Len(s))

C10_TruncatedDigestLength ==
  \A i \in 1..Len(renames) :
    /\ Len(renames[i].file_hash) = char_count
    /\ IsPrefix(renames[i].file_hash, sha256_hexdigest(File0(renames[i].id).content))

(***************************************************************************)
(* C11: on a tree where no two files of one directory share a truncated    *)
(* digest and extension, a second run of rename_files with the same        *)
(* character count completes without error and leaves every file name and  *)
(* content as the first run left it.                                       *)
(***************************************************************************)
\* The name rename_files gives the file called n in directory D.
TargetName(D, n) ==
  new_filename(SlicePrefix(sha256_hexdigest(D[n].content), char_count), n)

\* No two files of one directory of the first tree get the same new name.
NoSharedTarget ==
  \A d \in Dirs : \A n \in DOMAIN fs1[d] : \A m \in DOMAIN fs1[d] :
    n # m => TargetName(fs1[d], n) # TargetName(fs1[d], m)

\* The first tree can be read throughout.
AllReadable == \A d \in Dirs : \A n \in DOMAIN fs1[d] : fs1[d][n].readable

C11_SecondRunIdempotent ==
  (tool = "rename" /\ run = 2 /\ NoSharedTarget /\ AllReadable) =>
    /\ pc # "error"
    /\ fs = fs0

\* The part of C11 that the code satisfies: every character count other
\* than 0.
C11_IdempotentNonzeroCount ==
  (tool = "rename" /\ run = 2 /\ NoSharedTarget /\ AllReadable /\ char_count # 0) =>
    /\ pc # "error"
    /\ fs = fs0

=============================================================================
